---------------------------- MODULE Spec2Model ----------------------------
(***************************************************************************)
(* A model of the sales follow-up repository: the recency-weighted score   *)
(* aggregator of streamlit_app.py and the retrieval / classification /     *)
(* follow-up composition functions of retr.py.                             *)
(*                                                                         *)
(* Numbers.  Python floats are modelled by exact integers: a metric value  *)
(* is an integer score, a weight is kept in tenths (1.0 -> 10, 0.1 -> 1)   *)
(* and a snapshot value is kept in hundredths (5.67 -> 567).               *)
(*                                                                         *)
(* Text.  A string is a sequence of characters.  Arabic letters are        *)
(* written by their transliterated names, Latin letters as themselves.     *)
(***************************************************************************)
EXTENDS Integers, Sequences, FiniteSets, TLC

VARIABLES
    my_meetings,      \* the list handed to compute_weighted_scores
    weighted_scores,  \* the dict it returned (an ordered list of items)
    agg_done,         \* whether compute_weighted_scores has returned
    diagnostics,      \* the sidebar's strongest and weakest metric, when shown
    classified,       \* the latest detect_objection call: its argument and result
    routed,           \* the latest sector detection: its argument and result
    described,        \* the latest pdf_description_engine call: argument and result
    extraction,       \* what the two text extractors yield for each pdf processed
    cache_file,       \* Marketing_cached_data.json: whether it exists, and its data
    storage,          \* SECTOR_ENGINE_PATH: per sector, whether its folder exists
                      \* and the file names os.listdir returns, in its order
    PDF_DESCRIPTIONS, \* the description cache loaded when retr.py is imported
    ratio,            \* what fuzz.ratio returns for the transcript under
                      \* analysis and each (lowercased) file name
    phase,            \* "setup" until generate_followups / the ranker has run
                      \* ("done") or retr.py has been imported ("loaded")
    meeting_text,     \* the transcript handed to generate_followups
    matched,          \* fetch_similar_pdfs: the candidate paths, in order
    ranked,           \* what rank_pdfs_based_on_relevance returned
    followups,        \* what generate_followups returned
    now,              \* the wall clock, in ticks
    db_rows,          \* the meetings table: (id, sales_id, meeting_date) rows
    sessions,         \* per browser session: where its run-pipeline handler is
    saved_log,        \* the meeting ids save_meeting_result has returned
    sidebar           \* what the sidebar shows: meeting count and last meeting

agg_vars == <<my_meetings, weighted_scores, agg_done, diagnostics>>

env_vars == <<storage, PDF_DESCRIPTIONS, ratio>>

call_vars == <<phase, meeting_text, matched, ranked, followups>>

db_vars == <<now, db_rows, sessions, saved_log, sidebar>>

fn_vars == <<classified, routed, described, extraction, cache_file>>

vars == <<my_meetings, weighted_scores, agg_done, diagnostics, classified, routed, described,
          extraction, cache_file, storage,
          PDF_DESCRIPTIONS, ratio, phase, meeting_text, matched, ranked, followups,
          now, db_rows, sessions, saved_log, sidebar>>

(***************************************************************************)
(* Python dicts keep insertion order: a dict is a sequence of items        *)
(* [k |-> key, v |-> value] with pairwise distinct keys.                   *)
(***************************************************************************)
EmptyDict == <<>>

DictKeys(d) == {d[i].k : i \in 1..Len(d)}

DictGet(d, key, default) ==
    IF \E i \in 1..Len(d) : d[i].k = key
    THEN (d[CHOOSE i \in 1..Len(d) : d[i].k = key]).v
    ELSE default

\* an assignment that adds an item whether or not the key is there
DictSet_always_append(d, key, val) == Append(d, [k |-> key, v |-> val])

DictSet(d, key, val) ==
    IF \E i \in 1..Len(d) : d[i].k = key
    THEN [i \in 1..Len(d) |-> IF d[i].k = key THEN [k |-> key, v |-> val] ELSE d[i]]
    ELSE Append(d, [k |-> key, v |-> val])

(***************************************************************************)
(* Strings.  A character is a TLA+ string: a Latin letter, digit or sign   *)
(* as itself, "SP" the space, "NL" the line break, an Arabic letter by the *)
(* name of its code point.                                                 *)
(***************************************************************************)
\* kw in text
Contains(kw, text) ==
    \E i \in 0..(Len(text) - Len(kw)) : SubSeq(text, i + 1, i + Len(kw)) = kw

\* text.endswith(suffix)
EndsWith(text, suffix) ==
    /\ Len(text) >= Len(suffix)
    /\ SubSeq(text, Len(text) - Len(suffix) + 1, Len(text)) = suffix

UpperCase == {"A", "C", "D", "F", "G", "L", "N", "P", "U"}

LowerChar(c) ==
    CASE c = "A" -> "a" [] c = "C" -> "c" [] c = "D" -> "d" [] c = "F" -> "f"
      [] c = "G" -> "g" [] c = "L" -> "l" [] c = "N" -> "n" [] c = "P" -> "p"
      [] c = "U" -> "u" [] OTHER -> c

\* text.lower(): Arabic letters, digits and signs have no case
Lower(text) == [i \in 1..Len(text) |-> LowerChar(text[i])]

\* "\n".join(lines)
RECURSIVE JoinLines(_)
JoinLines(ls) ==
    IF ls = <<>> THEN <<>>
    ELSE IF Len(ls) = 1 THEN ls[1]
    ELSE ls[1] \o <<"NL">> \o JoinLines(Tail(ls))

(***************************************************************************)
(* detect_objection (retr.py): the keywords of the four objection groups.  *)
(***************************************************************************)
kw_price == <<"seen", "ain", "reh">>

kw_the_money == <<"alef", "lam", "feh", "lam", "waw", "seen">>

kw_budget == <<"meem", "yeh", "zain", "alef", "noon", "yeh", "teh_marbuta">>

kw_result == <<"noon", "teh", "yeh", "jeem", "teh_marbuta">>

kw_results == <<"noon", "teh", "alef", "yeh_with_hamza_above", "jeem">>

kw_quality == <<"jeem", "waw", "dal", "teh_marbuta">>

kw_time == <<"waw", "qaf", "teh">>

\* detect_objection returning the last matching group instead of the first
detect_objection_last_wins(text) ==
    LET t == Lower(text)
    IN  IF Contains(kw_time, t) THEN "timeline"
        ELSE IF Contains(kw_quality, t) THEN "quality"
        ELSE IF Contains(kw_result, t) \/ Contains(kw_results, t) THEN "expectations"
        ELSE IF Contains(kw_price, t) \/ Contains(kw_the_money, t) \/ Contains(kw_budget, t)
             THEN "money"
        ELSE "none"

\* detect_objection classifying the text together with the text of the
\* call before it
detect_objection_carry_over(text) ==
    LET t == Lower(classified.text \o <<"NL">> \o text)
    IN  IF Contains(kw_price, t) \/ Contains(kw_the_money, t) \/ Contains(kw_budget, t)
        THEN "money"
        ELSE IF Contains(kw_result, t) \/ Contains(kw_results, t) THEN "expectations"
        ELSE IF Contains(kw_quality, t) THEN "quality"
        ELSE IF Contains(kw_time, t) THEN "timeline"
        ELSE "none"

detect_objection(text) ==
    LET t == Lower(text)
    IN  IF Contains(kw_price, t) \/ Contains(kw_the_money, t) \/ Contains(kw_budget, t)
        THEN "money"
        ELSE IF Contains(kw_result, t) \/ Contains(kw_results, t) THEN "expectations"
        ELSE IF Contains(kw_quality, t) THEN "quality"
        ELSE IF Contains(kw_time, t) THEN "timeline"
        ELSE "none"

(***************************************************************************)
(* The transcripts the text functions are applied to: up to MaxLines of    *)
(* the lines below, in the order listed, joined by line breaks.            *)
(***************************************************************************)
\* how much is the price
line_price == <<"kaf", "meem", "SP", "alef", "lam", "seen", "ain", "reh">>

\* the prices (a plural that does not contain the keyword)
line_prices == <<"alef", "lam", "alef_with_hamza_above", "seen", "ain", "alef", "reh">>

\* the money
line_the_money == <<"alef", "lam", "feh", "lam", "waw", "seen">>

\* money, without the article
line_money == <<"feh", "lam", "waw", "seen">>

\* budget
line_budget == <<"meem", "yeh", "zain", "alef", "noon", "yeh", "teh_marbuta">>

\* result
line_result == <<"noon", "teh", "yeh", "jeem", "teh_marbuta">>

\* results
line_results == <<"noon", "teh", "alef", "yeh_with_hamza_above", "jeem">>

\* the quality
line_quality == <<"alef", "lam", "jeem", "waw", "dal", "teh_marbuta">>

\* the time
line_time == <<"alef", "lam", "waw", "qaf", "teh">>

\* store
line_store == <<"meem", "teh", "jeem", "reh">>

\* client
line_client == <<"ain", "meem", "yeh", "lam">>

\* price of the store
line_store_price == <<"seen", "ain", "reh", "SP", "alef", "lam", "meem", "teh", "jeem", "reh">>

\* quality of the results
line_quality_results == <<"jeem", "waw", "dal", "teh_marbuta", "SP", "alef", "lam", "noon", "teh", "alef", "yeh_with_hamza_above", "jeem">>

\* a timestamped line with the cue phrase
line_cue == <<"0", ":", "0", "4", "SP", "-", "SP", "yeh", "alef", "reh", "beh", "SP", "seen", "teh", "reh", "kaf">>

\* the cue phrase alone
line_cue_plain == <<"yeh", "alef", "reh", "beh", "SP", "seen", "teh", "reh", "kaf">>

\* a timestamped greeting
line_stamp == <<"0", ":", "0", "5", "SP", "-", "SP", "meem", "reh", "hah", "beh", "alef">>

\* Latin upper case
line_ugc == <<"U", "G", "C">>

TranscriptLines ==
    <<line_price,
      line_prices,
      line_the_money,
      line_money,
      line_budget,
      line_result,
      line_results,
      line_quality,
      line_time,
      line_store,
      line_client,
      line_store_price,
      line_quality_results,
      line_cue,
      line_cue_plain,
      line_stamp,
      line_ugc>>

MaxLines == 2

\* the subsets of 1..n with at most m elements
SmallSubsets(n, m) == {S \in SUBSET (1..n) : Cardinality(S) <= m}

\* the elements of a set of numbers in increasing order
RECURSIVE Ascending(_)
Ascending(S) ==
    IF S = {} THEN <<>>
    ELSE LET lo == CHOOSE x \in S : \A y \in S : x <= y
         IN  <<lo>> \o Ascending(S \ {lo})

TranscriptOf(S) ==
    LET idx == Ascending(S)
    IN  JoinLines([i \in 1..Len(idx) |-> TranscriptLines[idx[i]]])

Transcripts == {TranscriptOf(S) : S \in SmallSubsets(Len(TranscriptLines), MaxLines)}

(***************************************************************************)
(* compute_weighted_scores (streamlit_app.py).  A meeting record is        *)
(* [meeting_date, has_scoring, scoring]: has_scoring = FALSE stands for a  *)
(* record whose "scoring" key is missing or None, scoring is a dict.       *)
(* meeting_date is an ISO timestamp string compared lexicographically,     *)
(* which orders timestamps as integers are ordered.                        *)
(***************************************************************************)
weights == <<10, 8, 6, 4, 2>>

FallbackWeight == 1

\* WeightAt with the last listed weight repeated instead of the fallback
WeightAt_repeat_last(i) == IF i < Len(weights) THEN weights[i + 1] ELSE weights[Len(weights)]

\* w = weights[i] if i < len(weights) else 0.1      (i counts from 0)
WeightAt(i) == IF i < Len(weights) THEN weights[i + 1] ELSE FallbackWeight

\* sorted(..., reverse=True) is stable: records with equal keys keep their
\* relative order.  InsertDesc puts m behind every record whose date is
\* not smaller.
RECURSIVE InsertDesc(_, _)
InsertDesc(m, s) ==
    IF s = <<>> THEN <<m>>
    ELSE IF Head(s).meeting_date >= m.meeting_date
         THEN <<Head(s)>> \o InsertDesc(m, Tail(s))
         ELSE <<m>> \o s

\* the records left in the order of the input list
SortByDateDesc_not_sorting(ms) == ms

RECURSIVE SortByDateDesc(_)
SortByDateDesc(ms) ==
    IF ms = <<>> THEN <<>>
    ELSE InsertDesc(ms[Len(ms)], SortByDateDesc(SubSeq(ms, 1, Len(ms) - 1)))

\* scoring = m.get("scoring", {}) or {}
ScoringOf(m) == IF m.has_scoring THEN m.scoring ELSE EmptyDict

\* for k, v in scoring.items(): agg[k] = agg.get(k, 0.0) + float(v) * w
RECURSIVE AddScoring(_, _, _)
AddScoring(agg, items, w) ==
    IF items = <<>> THEN agg
    ELSE AddScoring(DictSet(agg, Head(items).k,
                            DictGet(agg, Head(items).k, 0) + Head(items).v * w),
                    Tail(items), w)

\* Accumulate counting a weight only for a record that has scores
RECURSIVE Accumulate_skip_unscored(_, _, _)
Accumulate_skip_unscored(sorted_ms, i, acc) ==
    IF i >= Len(sorted_ms) THEN acc
    ELSE LET m == sorted_ms[i + 1]
             w == WeightAt(i)
         IN  Accumulate_skip_unscored(sorted_ms, i + 1,
                        [agg |-> AddScoring(acc.agg, ScoringOf(m), w),
                         total_w |-> IF ScoringOf(m) = EmptyDict
                                     THEN acc.total_w ELSE acc.total_w + w])

\* the loop over enumerate(sorted_ms), from index i on
RECURSIVE Accumulate(_, _, _)
Accumulate(sorted_ms, i, acc) ==
    IF i >= Len(sorted_ms) THEN acc
    ELSE LET m == sorted_ms[i + 1]
             w == WeightAt(i)
         IN  Accumulate(sorted_ms, i + 1,
                        [agg |-> AddScoring(acc.agg, ScoringOf(m), w),
                         total_w |-> acc.total_w + w])

\* round(num / den, 2) in hundredths, for num >= 0 and den > 0.  An exact
\* half goes to the even neighbour; with integer scores no exact half
\* arises in histories of up to 6 records (their weights are in
\* {10, 18, 24, 28, 30, 31} tenths), and the float quotient rounds as the
\* exact one does.
Round2(num, den) ==
    LET q == (100 * num) \div den
        r == (100 * num) % den
    IN  IF 2 * r > den THEN q + 1
        ELSE IF 2 * r < den THEN q
        ELSE IF q % 2 = 0 THEN q ELSE q + 1

compute_weighted_scores(meetings) ==
    IF meetings = <<>> THEN EmptyDict
    ELSE LET sorted_ms == SortByDateDesc(meetings)
             acc == Accumulate(sorted_ms, 0, [agg |-> EmptyDict, total_w |-> 0])
         IN  IF acc.total_w = 0 THEN EmptyDict
             ELSE [i \in 1..Len(acc.agg) |->
                      [k |-> acc.agg[i].k, v |-> Round2(acc.agg[i].v, acc.total_w)]]

(***************************************************************************)
(* The histories the aggregator is applied to.  SpecAgg explores short     *)
(* histories whose records carry any scoring dict over two metrics;        *)
(* SpecAggLong explores histories long enough to reach the fallback        *)
(* weight, over one metric.                                                *)
(***************************************************************************)
MaxMeetings == 2

MaxLongMeetings == 6

MaxDate == 2

Metrics == {"quality", "clarity"}

Values == {1, 5, 9}

LongValues == {1, 9}

Dates == 1..MaxDate

Item(key, val) == [k |-> key, v |-> val]

Meeting(d, s) == [meeting_date |-> d, has_scoring |-> TRUE, scoring |-> s]

\* a record whose scoring is missing or None
MeetingNoScoring(d) == [meeting_date |-> d, has_scoring |-> FALSE, scoring |-> EmptyDict]

\* a scoring dict: empty, one metric, or both metrics in either order
Scorings ==
    {EmptyDict}
    \cup {<<Item(key, val)>> : key \in Metrics, val \in Values}
    \cup {<<Item(k1, v1), Item(k2, v2)>> :
              <<k1, k2>> \in {kk \in Metrics \X Metrics : kk[1] # kk[2]},
              v1 \in Values, v2 \in Values}

MeetingRecords ==
    {Meeting(d, s) : d \in Dates, s \in Scorings}
    \cup {MeetingNoScoring(d) : d \in Dates}

LongMeetingRecords ==
    {Meeting(d, <<Item("quality", val)>>) : d \in Dates, val \in LongValues}

\* max(d, key=d.get) returning the latest key of the greatest value
RECURSIVE max_by_value_latest(_)
max_by_value_latest(d) ==
    IF Len(d) = 1 THEN d[1]
    ELSE LET cur == max_by_value_latest(SubSeq(d, 1, Len(d) - 1))
         IN  IF d[Len(d)].v >= cur.v THEN d[Len(d)] ELSE cur

\* max(d, key=d.get): a later key replaces the current one only when its
\* value is greater; d is not empty
RECURSIVE max_by_value(_)
max_by_value(d) ==
    IF Len(d) = 1 THEN d[1]
    ELSE LET cur == max_by_value(SubSeq(d, 1, Len(d) - 1))
         IN  IF d[Len(d)].v > cur.v THEN d[Len(d)] ELSE cur

\* min(d, key=d.get)
RECURSIVE min_by_value(_)
min_by_value(d) ==
    IF Len(d) = 1 THEN d[1]
    ELSE LET cur == min_by_value(SubSeq(d, 1, Len(d) - 1))
         IN  IF d[Len(d)].v < cur.v THEN d[Len(d)] ELSE cur

NoDiagnostics == [shown |-> FALSE, best |-> "", worst |-> ""]

\* if weighted_scores: best = max(...); worst = min(...)
Diagnostics(scores) ==
    IF scores = EmptyDict THEN NoDiagnostics
    ELSE [shown |-> TRUE, best |-> max_by_value(scores).k,
          worst |-> min_by_value(scores).k]

AggInit ==
    /\ my_meetings = <<>>
    /\ weighted_scores = EmptyDict
    /\ agg_done = FALSE
    /\ diagnostics = NoDiagnostics

\* one more record in the history handed to the aggregator
AddMeeting(m) ==
    /\ my_meetings' = Append(my_meetings, m)
    /\ weighted_scores' = EmptyDict
    /\ agg_done' = FALSE
    /\ diagnostics' = NoDiagnostics

\* the caller's list after a call that sorted it in place (meetings.sort)
meetings_after_sort_in_place(meetings) == SortByDateDesc(meetings)

\* the caller's list after the call: sorted() builds a new list and the
\* loop only reads the records
meetings_after_call(meetings) == meetings

\* weighted_scores = compute_weighted_scores(my_meetings) and the diagnostics
\* drawn from it; the sidebar may run again on the same list
ComputeWeightedScores ==
    /\ weighted_scores' = compute_weighted_scores(my_meetings)
    /\ agg_done' = TRUE
    /\ diagnostics' = Diagnostics(compute_weighted_scores(my_meetings))
    /\ my_meetings' = meetings_after_call(my_meetings)

(***************************************************************************)
(* pdf_description_engine (retr.py).  A description is an opaque string;   *)
(* the six built-in ones are named, "" is the empty string.                *)
(***************************************************************************)
rule_strategy == <<"alef", "seen", "teh", "reh", "alef", "teh", "yeh", "jeem", "yeh">>

rule_roadmap == <<"khah", "alef", "reh", "tah", "teh_marbuta">>

rule_ugc == <<"u", "g", "c">>

rule_user_content == <<"alef", "lam", "meem", "hah", "teh", "waw", "alef_maksura", "SP", "alef", "lam", "thal", "yeh", "SP", "yeh", "waw", "lam", "dal", "heh", "SP", "alef", "lam", "meem", "seen", "teh", "khah", "dal", "meem">>

rule_marketing == <<"teh", "seen", "waw", "yeh", "qaf">>

rule_advert == <<"alef_with_hamza_below", "ain", "lam", "alef", "noon">>

rule_campaigns == <<"hah", "meem", "lam", "alef", "teh">>

rule_brand == <<"ain", "lam", "alef", "meem", "teh_marbuta">>

rule_identity == <<"heh", "waw", "yeh", "teh_marbuta">>

pdf_suffix == <<".", "p", "d", "f">>

\* text.replace(pat, ""): every occurrence, left to right
RECURSIVE RemoveAll(_, _)
RemoveAll(text, pat) ==
    IF Len(text) < Len(pat) THEN text
    ELSE IF SubSeq(text, 1, Len(pat)) = pat
         THEN RemoveAll(SubSeq(text, Len(pat) + 1, Len(text)), pat)
         ELSE <<Head(text)>> \o RemoveAll(Tail(text), pat)

pdf_description_engine(pdf_name) ==
    IF pdf_name \in DOMAIN PDF_DESCRIPTIONS THEN PDF_DESCRIPTIONS[pdf_name]
    ELSE LET name == Lower(RemoveAll(pdf_name, pdf_suffix))
         IN  IF Contains(rule_strategy, name) \/ Contains(rule_roadmap, name)
                 THEN "desc_strategy"
             ELSE IF Contains(rule_ugc, name) \/ Contains(rule_user_content, name)
                 THEN "desc_ugc"
             ELSE IF Contains(rule_marketing, name) THEN "desc_marketing"
             ELSE IF Contains(rule_advert, name) \/ Contains(rule_campaigns, name)
                 THEN "desc_ads"
             ELSE IF Contains(rule_brand, name) \/ Contains(rule_identity, name)
                 THEN "desc_brand"
             ELSE "desc_default"

(***************************************************************************)
(* extract_client_name (retr.py)                                           *)
(***************************************************************************)
cue == <<"yeh", "alef", "reh", "beh", "SP", "seen", "teh", "reh", "kaf">>

client_nora == <<"noon", "waw", "reh", "teh_marbuta">>

client_generic == <<"alef", "lam", "ain", "meem", "yeh", "lam">>

\* text.split("\n")
RECURSIVE SplitLines(_)
SplitLines(text) ==
    IF \E i \in 1..Len(text) : text[i] = "NL"
    THEN LET i == CHOOSE j \in 1..Len(text) :
                     text[j] = "NL" /\ \A n \in 1..(j - 1) : text[n] # "NL"
         IN  <<SubSeq(text, 1, i - 1)>> \o SplitLines(SubSeq(text, i + 1, Len(text)))
    ELSE <<text>>

\* the heuristic looking for the cue and the colon anywhere in the transcript
extract_client_name_whole_text(text) ==
    IF Contains(cue, text) /\ Contains(<<":">>, text)
    THEN client_nora
    ELSE client_generic

extract_client_name(text) ==
    LET lines == SplitLines(text)
    IN  IF \E i \in 1..Len(lines) :
               Contains(cue, lines[i]) /\ Contains(<<":">>, lines[i])
        THEN client_nora
        ELSE client_generic

(***************************************************************************)
(* fetch_similar_pdfs and rank_pdfs_based_on_relevance (retr.py).  A path  *)
(* os.path.join(SECTOR_ENGINE_PATH, sector, f) is [sector, name].          *)
(***************************************************************************)
kw_store == <<"meem", "teh", "jeem", "reh">>

kw_marketing == <<"teh", "seen", "waw", "yeh", "qaf">>

kw_sales == <<"meem", "beh", "yeh", "ain", "alef", "teh">>

kw_client == <<"ain", "meem", "yeh", "lam">>

kw_money == <<"feh", "lam", "waw", "seen">>

kw_service == <<"khah", "dal", "meem", "teh_marbuta">>

kw_campaign == <<"hah", "meem", "lam", "teh_marbuta">>

kw_celebrities == <<"meem", "sheen", "alef", "heh", "yeh", "reh">>

kw_advert == <<"alef", "ain", "lam", "alef", "noon">>

\* the items of TOPIC_TO_SECTOR, in the order of the dict
TOPIC_TO_SECTOR ==
    <<[kw |-> kw_store, sector |-> "Marketing"],
      [kw |-> kw_marketing, sector |-> "Marketing"],
      [kw |-> kw_sales, sector |-> "Sales"],
      [kw |-> kw_client, sector |-> "Sales"],
      [kw |-> kw_budget, sector |-> "Business"],
      [kw |-> kw_money, sector |-> "Business"],
      [kw |-> kw_price, sector |-> "Business"],
      [kw |-> kw_service, sector |-> "Marketing"],
      [kw |-> kw_campaign, sector |-> "Marketing"],
      [kw |-> kw_celebrities, sector |-> "Marketing"],
      [kw |-> kw_advert, sector |-> "Marketing"],
      [kw |-> kw_quality, sector |-> "Branding"],
      [kw |-> kw_results, sector |-> "Marketing"]>>

Sectors == {"Marketing", "Sales", "Business", "Branding"}

Path(sector, f) == [sector |-> sector, name |-> f]

\* os.path.basename(pdf)
basename(pdf) == pdf.name

\* the loop keeping only the sector of the latest keyword found
RECURSIVE sectors_after_latest_only(_, _)
sectors_after_latest_only(items, lowered) ==
    IF items = <<>> THEN {}
    ELSE LET last == items[Len(items)]
             before == sectors_after_latest_only(SubSeq(items, 1, Len(items) - 1), lowered)
         IN  IF Contains(Lower(last.kw), lowered) THEN {last.sector} ELSE before

\* for kw, sector in items: if kw.lower() in text: detected_sectors.add(sector)
RECURSIVE sectors_after(_, _)
sectors_after(items, lowered) ==
    IF items = <<>> THEN {}
    ELSE LET last == items[Len(items)]
             before == sectors_after(SubSeq(items, 1, Len(items) - 1), lowered)
         IN  IF Contains(Lower(last.kw), lowered)
             THEN before \cup {last.sector} ELSE before

\* detected_sectors after the loop over TOPIC_TO_SECTOR.items()
detected_sectors(text) ==
    LET lowered == Lower(text)
    IN  {TOPIC_TO_SECTOR[i].sector :
            i \in {j \in 1..Len(TOPIC_TO_SECTOR) :
                      Contains(Lower(TOPIC_TO_SECTOR[j].kw), lowered)}}

\* the paths one sector adds to matched: its folder's .pdf files, in the
\* order os.listdir gives them; nothing when the folder does not exist
RECURSIVE PdfPaths(_, _)
PdfPaths(sector, files) ==
    IF files = <<>> THEN <<>>
    ELSE IF EndsWith(Head(files), pdf_suffix)
         THEN <<Path(sector, Head(files))>> \o PdfPaths(sector, Tail(files))
         ELSE PdfPaths(sector, Tail(files))

SectorPdfs(sector) ==
    IF storage[sector].exists THEN PdfPaths(sector, storage[sector].files) ELSE <<>>

\* matched after the loop over detected_sectors; order is the order in
\* which the set is iterated
RECURSIVE MatchedIn(_)
MatchedIn(order) ==
    IF order = <<>> THEN <<>>
    ELSE SectorPdfs(Head(order)) \o MatchedIn(Tail(order))

\* fuzz.ratio(s1, s2), for s1 the lowercased transcript under analysis
fuzz_ratio(s1, s2) == ratio[s2]

\* InsertByScore putting x in front of the entries with its score
RECURSIVE InsertByScore_before_equal(_, _)
InsertByScore_before_equal(x, s) ==
    IF s = <<>> THEN <<x>>
    ELSE IF Head(s).score > x.score
         THEN <<Head(s)>> \o InsertByScore_before_equal(x, Tail(s))
         ELSE <<x>> \o s

\* scored.sort(key=lambda x: x[1], reverse=True): stable, so x goes behind
\* every entry whose score is not smaller
RECURSIVE InsertByScore(_, _)
InsertByScore(x, s) ==
    IF s = <<>> THEN <<x>>
    ELSE IF Head(s).score >= x.score
         THEN <<Head(s)>> \o InsertByScore(x, Tail(s))
         ELSE <<x>> \o s

RECURSIVE SortByScoreDesc(_)
SortByScoreDesc(scored) ==
    IF scored = <<>> THEN <<>>
    ELSE InsertByScore(scored[Len(scored)],
                       SortByScoreDesc(SubSeq(scored, 1, Len(scored) - 1)))

\* the ranker keeping one entry per path, as a dict keyed by path would
RECURSIVE Distinct(_)
Distinct(s) ==
    IF s = <<>> THEN <<>>
    ELSE LET rest == Distinct(SubSeq(s, 1, Len(s) - 1))
         IN  IF \E i \in 1..Len(rest) : rest[i] = s[Len(s)]
             THEN rest ELSE Append(rest, s[Len(s)])

rank_pdfs_one_per_path(pdf_list, text) ==
    LET uniq == Distinct(pdf_list)
        scored == [i \in 1..Len(uniq) |->
                      [pdf |-> uniq[i],
                       score |-> fuzz_ratio(Lower(text), Lower(basename(uniq[i])))]]
        sorted == SortByScoreDesc(scored)
    IN  [i \in 1..Len(sorted) |-> sorted[i].pdf]

rank_pdfs_based_on_relevance(pdf_list, text) ==
    LET scored == [i \in 1..Len(pdf_list) |->
                      [pdf |-> pdf_list[i],
                       score |-> fuzz_ratio(Lower(text), Lower(basename(pdf_list[i])))]]
        sorted == SortByScoreDesc(scored)
    IN  [i \in 1..Len(sorted) |-> sorted[i].pdf]

\* ranked[1:3]
FirstTwo_after_best(s) == SubSeq(s, IF Len(s) < 2 THEN 1 ELSE 2, IF Len(s) < 3 THEN Len(s) ELSE 3)

\* ranked[:2]
FirstTwo(s) == SubSeq(s, 1, IF Len(s) < 2 THEN Len(s) ELSE 2)

\* order: the order in which the set detected_sectors is iterated
fetch_similar_pdfs(text, order) ==
    FirstTwo(rank_pdfs_based_on_relevance(MatchedIn(order), text))

(***************************************************************************)
(* generate_followups (retr.py).  A message body is the template it was    *)
(* built from and the values put into it; a template is named by its       *)
(* stage (and objection), "" would be an empty body.                       *)
(***************************************************************************)
none_str == <<"N", "o", "n", "e">>

NoPdf == [some |-> FALSE, name |-> <<>>]

SomePdf(name) == [some |-> TRUE, name |-> name]

\* how an f-string prints a file name or None
Printed(pdf) == IF pdf.some THEN pdf.name ELSE none_str

Body(template, client_name, topic, pdf, desc) ==
    [template |-> template, client_name |-> client_name, topic |-> topic,
     pdf |-> pdf, desc |-> desc]

schedule ==
    [followup_1_time |-> "2-3 hours after the meeting",
     followup_2_time |-> "next day 10 am",
     followup_3_time |-> "after 48 hours, depending on the client's response",
     followup_4_time |-> "after 72-96 hours (closing stage)"]

\* desc = pdf_description_engine(pdf) whatever pdf is
describe_selected_always(pdf) == pdf_description_engine(Printed(pdf))

\* desc = pdf_description_engine(pdf) if pdf else ""
describe_selected(pdf) == IF pdf.some THEN pdf_description_engine(pdf.name) ELSE ""

\* the stage-3 branches without the final else
followup_3_no_default(objection, client_name) ==
    IF objection = "money"
        THEN Body("followup_3_money", client_name, "", <<>>, "")
    ELSE IF objection = "expectations"
        THEN Body("followup_3_expectations", client_name, "", <<>>, "")
    ELSE IF objection = "quality"
        THEN Body("followup_3_quality", client_name, "", <<>>, "")
    ELSE IF objection = "timeline"
        THEN Body("followup_3_timeline", client_name, "", <<>>, "")
    ELSE Body("", <<>>, "", <<>>, "")

\* the stage-3 branches with the timeline branch repeating the quality text
followup_3_copied_branch(objection, client_name) ==
    IF objection = "money"
        THEN Body("followup_3_money", client_name, "", <<>>, "")
    ELSE IF objection = "expectations"
        THEN Body("followup_3_expectations", client_name, "", <<>>, "")
    ELSE IF objection = "quality"
        THEN Body("followup_3_quality", client_name, "", <<>>, "")
    ELSE IF objection = "timeline"
        THEN Body("followup_3_quality", client_name, "", <<>>, "")
    ELSE Body("followup_3_none", client_name, "", <<>>, "")

\* f3: the branch on objection
followup_3(objection, client_name) ==
    IF objection = "money"
        THEN Body("followup_3_money", client_name, "", <<>>, "")
    ELSE IF objection = "expectations"
        THEN Body("followup_3_expectations", client_name, "", <<>>, "")
    ELSE IF objection = "quality"
        THEN Body("followup_3_quality", client_name, "", <<>>, "")
    ELSE IF objection = "timeline"
        THEN Body("followup_3_timeline", client_name, "", <<>>, "")
    ELSE Body("followup_3_none", client_name, "", <<>>, "")

generate_followups(text, order) ==
    LET client_name == extract_client_name(text)
        objection == detect_objection(text)
        selected_pdfs == fetch_similar_pdfs(text, order)
        pdf1 == IF Len(selected_pdfs) > 0 THEN SomePdf(basename(selected_pdfs[1])) ELSE NoPdf
        pdf2 == IF Len(selected_pdfs) > 1 THEN SomePdf(basename(selected_pdfs[2])) ELSE NoPdf
        desc1 == describe_selected(pdf1)
        desc2 == describe_selected(pdf2)
        topic == IF Contains(kw_store, text) THEN "the online store"
                 ELSE "the services we discussed"
        f1 == Body("followup_1", client_name, topic, Printed(pdf1), desc1)
        f2 == Body("followup_2", client_name, "", Printed(pdf2), desc2)
        f3 == followup_3(objection, client_name)
        f4 == Body("followup_4", client_name, "", <<>>, "")
    IN  [client_name |-> client_name,
         objection |-> objection,
         selected_pdf_1 |-> pdf1,
         selected_pdf_2 |-> pdf2,
         pdf1_description |-> desc1,
         pdf2_description |-> desc2,
         followup_1 |-> f1,
         followup_2 |-> f2,
         followup_3 |-> f3,
         followup_4 |-> f4,
         schedule |-> schedule]

(***************************************************************************)
(* The document storage and the calls of the pipeline.                     *)
(***************************************************************************)
name_plan == <<"p", "l", "a", "n", ".", "p", "d", "f">>

name_ugc == <<"U", "G", "C", ".", "p", "d", "f">>

name_marketing == <<"teh", "seen", "waw", "yeh", "qaf", ".", "p", "d", "f">>

name_notes == <<"n", "o", "t", "e", "s", ".", "t", "x", "t">>

FileNames == {name_plan, name_ugc, name_marketing, name_notes}

PdfNames == {f \in FileNames : EndsWith(f, pdf_suffix)}

Scores == {40, 70}

MaxEntries == 4

MaxListLen == 3

\* the transcripts handed to the pipeline: the empty one, the single lines,
\* and two of two lines with the cue phrase and a colon
PipelineTranscripts ==
    {<<>>} \cup {TranscriptLines[i] : i \in 1..Len(TranscriptLines)}
           \cup {JoinLines(<<line_cue_plain, line_stamp>>),
                 JoinLines(<<line_stamp, line_cue>>)}

DescriptionCaches ==
    {[f \in {} |-> ""], [f \in {name_plan} |-> "cached description"]}

NoFolder == [exists |-> FALSE, files |-> <<>>]

\* the folders and files in the storage
Entries ==
    LET n == [s \in Sectors |-> IF storage[s].exists THEN 1 + Len(storage[s].files) ELSE 0]
    IN  n["Marketing"] + n["Sales"] + n["Business"] + n["Branding"]

NoResult == [objection |-> "none"]

CallInit ==
    /\ phase = "setup"
    /\ meeting_text = <<>>
    /\ matched = <<>>
    /\ ranked = <<>>
    /\ followups = NoResult

EnvInit ==
    /\ storage = [s \in Sectors |-> NoFolder]
    /\ PDF_DESCRIPTIONS = [f \in {} |-> ""]
    /\ ratio = [f \in {} |-> 0]

\* retr.py is imported: the description cache is whatever the cache file holds
PipelineInit ==
    /\ storage = [s \in Sectors |-> NoFolder]
    /\ PDF_DESCRIPTIONS \in DescriptionCaches
    /\ ratio = [f \in {} |-> 0]

\* fuzz.ratio's value for a name, once the name is first met
RatioWith(f, sc) ==
    IF Lower(f) \in DOMAIN ratio THEN ratio ELSE ratio @@ (Lower(f) :> sc)

\* a sector folder is created
MkDir(sector) ==
    /\ phase = "setup"
    /\ ~storage[sector].exists
    /\ storage' = [storage EXCEPT ![sector] = [exists |-> TRUE, files |-> <<>>]]
    /\ UNCHANGED <<PDF_DESCRIPTIONS, ratio, call_vars>>

\* a file is put into a sector folder
AddFile(sector, f, sc) ==
    /\ phase = "setup"
    /\ storage[sector].exists
    /\ \A i \in 1..Len(storage[sector].files) : storage[sector].files[i] # f
    /\ storage' = [storage EXCEPT ![sector].files = Append(@, f)]
    /\ ratio' = IF EndsWith(f, pdf_suffix) THEN RatioWith(f, sc) ELSE ratio
    /\ UNCHANGED <<PDF_DESCRIPTIONS, call_vars>>

\* the sequences that list every element of S once
Orders(S) ==
    {o \in [1..Cardinality(S) -> S] : \A x \in S : \E i \in 1..Cardinality(S) : o[i] = x}

\* result = generate_followups(meeting_text)
GenerateFollowups(text) ==
    /\ phase = "setup"
    /\ \E order \in Orders(detected_sectors(text)) :
          /\ matched' = MatchedIn(order)
          /\ ranked' = rank_pdfs_based_on_relevance(MatchedIn(order), text)
          /\ followups' = generate_followups(text, order)
    /\ meeting_text' = text
    /\ phase' = "done"
    /\ UNCHANGED env_vars

\* one more path in the list handed to the ranker
AddCandidate(pdf, sc) ==
    /\ phase = "setup"
    /\ matched' = Append(matched, pdf)
    /\ ratio' = RatioWith(basename(pdf), sc)
    /\ UNCHANGED <<storage, PDF_DESCRIPTIONS, phase, meeting_text, ranked, followups>>

\* ranked = rank_pdfs_based_on_relevance(matched, meeting_text)
RankPdfs ==
    /\ phase = "setup"
    /\ ranked' = rank_pdfs_based_on_relevance(matched, meeting_text)
    /\ phase' = "done"
    /\ UNCHANGED <<env_vars, meeting_text, matched, followups>>

(***************************************************************************)
(* Building the description cache (retrieval.py) and loading it (retr.py). *)
(***************************************************************************)
text_pypdf2 == "text extracted by PyPDF2"

text_pdfminer == "text extracted by pdfminer"

blank == " "

\* raw_text.strip().replace("\n", " ").replace("  ", " ") of the texts above
CleanText(raw_text) == IF raw_text = blank THEN "" ELSE raw_text

\* what extract_text_from_pdf_pypdf2 may return: "" after an exception
Pypdf2Yields == {"", blank, text_pypdf2}

\* what extract_text_from_pdf_pdfminer may return: "" after an exception
PdfminerYields == {"", text_pdfminer}

Yields == [pypdf2 : Pypdf2Yields, pdfminer : PdfminerYields]

\* y: what the extractors yield for the file
extract_text_from_pdf(y) ==
    IF CleanText(y.pypdf2) = "" THEN y.pdfminer ELSE y.pypdf2

\* f.lower().endswith(".pdf")
IsPdfName(f) == EndsWith(Lower(f), pdf_suffix)

\* the basenames of the paths fetch_pdfs_from_sector returns
fetch_pdfs_from_sector(sector) ==
    IF storage[sector].exists THEN SelectSeq(storage[sector].files, IsPdfName) ELSE <<>>

\* sector_data: one entry per pdf, whatever its extraction gave
process_pdfs_for_sector(sector, yields) ==
    LET pdf_files == fetch_pdfs_from_sector(sector)
    IN  [f \in {pdf_files[i] : i \in 1..Len(pdf_files)} |->
            CleanText(extract_text_from_pdf(yields[f]))]

\* cache_pdf_content(): sector_data dumped to the cache file
CachePdfContent(yields) ==
    /\ phase = "setup"
    /\ extraction' = [done |-> TRUE, yields |-> yields]
    /\ cache_file' = [exists |-> TRUE,
                      data |-> process_pdfs_for_sector("Marketing", yields)]
    /\ UNCHANGED <<classified, routed, described, env_vars, call_vars>>

\* import retr: PDF_DESCRIPTIONS = json.load(f) if the file exists, else {}
LoadDescriptions ==
    /\ phase = "setup"
    /\ PDF_DESCRIPTIONS' = IF cache_file.exists THEN cache_file.data ELSE [f \in {} |-> ""]
    /\ phase' = "loaded"
    /\ UNCHANGED <<fn_vars, storage, ratio, meeting_text, matched, ranked, followups>>

\* desc = pdf_description_engine(pdf_name)
Describe(pdf_name) ==
    /\ phase = "loaded"
    /\ described' = [called |-> TRUE, pdf_name |-> pdf_name,
                     description |-> pdf_description_engine(pdf_name)]
    /\ UNCHANGED <<classified, routed, extraction, cache_file, env_vars, call_vars>>

name_strategy_marketing == <<"alef", "seen", "teh", "reh", "alef", "teh", "yeh", "jeem", "yeh", "SP", "teh", "seen", "waw", "yeh", "qaf", ".", "p", "d", "f">>

name_roadmap == <<"khah", "alef", "reh", "tah", "teh_marbuta", ".", "p", "d", "f">>

name_ugc_campaigns == <<"u", "g", "c", "SP", "hah", "meem", "lam", "alef", "teh", ".", "p", "d", "f">>

name_advert_brand == <<"alef_with_hamza_below", "ain", "lam", "alef", "noon", "SP", "ain", "lam", "alef", "meem", "teh_marbuta", ".", "p", "d", "f">>

name_identity == <<"heh", "waw", "yeh", "teh_marbuta", ".", "p", "d", "f">>

name_marketing_identity == <<"teh", "seen", "waw", "yeh", "qaf", "SP", "heh", "waw", "yeh", "teh_marbuta", ".", "p", "d", "f">>

name_split_ugc == <<"u", ".", "p", "d", "f", "g", "c", ".", "p", "d", "f">>

name_upper_suffix == <<"U", "G", "C", ".", "P", "D", "F">>

\* the names handed to pdf_description_engine
DescribeNames ==
    PdfNames \cup {name_strategy_marketing, name_roadmap, name_ugc_campaigns,
                   name_advert_brand, name_identity, name_marketing_identity,
                   name_split_ugc, name_upper_suffix}

(***************************************************************************)
(* The meetings table (db.py), the run-pipeline handler that saves into it *)
(* and the sidebar that reads it (streamlit_app.py).  The clock counts     *)
(* ticks; a meeting id is the clock to the second, a meeting_date the      *)
(* clock itself.                                                           *)
(***************************************************************************)
TicksPerSecond == 2

MaxNow == 3

Sessions == {1, 2}

Agents == {"SLS-442", "SLS-7"}

already_exists == "Meeting already exists in the database."

integrity_error == "sqlite3.IntegrityError"

\* datetime.now().strftime("%Y%m%d-%H%M%S")
MeetingId(t) == t \div TicksPerSecond

Idle ==
    [pc |-> "idle", sales_id |-> "", meeting_id |-> 0, meeting_date |-> 0,
     reported |-> FALSE, result |-> ""]

NoSidebar == [shown |-> FALSE, sales_id |-> "", total |-> 0, last_meeting |-> 0]

DbInit ==
    /\ now = 0
    /\ db_rows = <<>>
    /\ sessions = [s \in Sessions |-> Idle]
    /\ saved_log = <<>>
    /\ sidebar = NoSidebar

\* SELECT 1 FROM meetings WHERE id = ?
RowExists(meeting_id) == \E i \in 1..Len(db_rows) : db_rows[i].id = meeting_id

\* time passes
Tick ==
    /\ now' = now + 1
    /\ UNCHANGED <<db_rows, sessions, saved_log, sidebar>>

\* the run-pipeline handler up to the first lines of save_meeting_result:
\* the success message is shown, then the id and the date are taken
BeginSave(s, sales_id) ==
    /\ sessions[s].pc \in {"idle", "returned", "raised"}
    /\ sessions' = [sessions EXCEPT ![s] =
                        [pc |-> "select", sales_id |-> sales_id,
                         meeting_id |-> MeetingId(now), meeting_date |-> now,
                         reported |-> TRUE, result |-> ""]]
    /\ UNCHANGED <<now, db_rows, saved_log, sidebar>>

\* the existence check finding no row whatever the table holds
SelectExisting_never_found(s) ==
    /\ sessions[s].pc = "select"
    /\ sessions' = [sessions EXCEPT ![s].pc = "insert"]
    /\ UNCHANGED <<now, db_rows, saved_log, sidebar>>

\* the existence check: return the message when the id is there
SelectExisting(s) ==
    /\ sessions[s].pc = "select"
    /\ sessions' = [sessions EXCEPT ![s] =
                        IF RowExists(sessions[s].meeting_id)
                        THEN [@ EXCEPT !.pc = "returned", !.result = already_exists]
                        ELSE [@ EXCEPT !.pc = "insert"]]
    /\ UNCHANGED <<now, db_rows, saved_log, sidebar>>

\* INSERT and commit: id is the PRIMARY KEY, so the insert of an id that is
\* in the table raises and nothing is stored
InsertRow(s) ==
    /\ sessions[s].pc = "insert"
    /\ IF RowExists(sessions[s].meeting_id)
       THEN /\ sessions' = [sessions EXCEPT ![s].pc = "raised",
                                            ![s].result = integrity_error]
            /\ UNCHANGED <<db_rows, saved_log>>
       ELSE /\ db_rows' = Append(db_rows, [id |-> sessions[s].meeting_id,
                                           sales_id |-> sessions[s].sales_id,
                                           meeting_date |-> sessions[s].meeting_date])
            /\ saved_log' = Append(saved_log, sessions[s].meeting_id)
            /\ sessions' = [sessions EXCEPT ![s].pc = "returned",
                                            ![s].result = "meeting_id"]
    /\ UNCHANGED <<now, sidebar>>

\* SELECT ... FROM meetings ORDER BY meeting_date DESC
load_all_meetings == SortByDateDesc(db_rows)

\* my_meetings[-1]["meeting_date"][:19]: the date cut to the second
LastMeeting(mine) == mine[Len(mine)].meeting_date \div TicksPerSecond

\* the sidebar for one agent: the agent's meetings, their count, the last
\* meeting, the weighted scores and the diagnostics
Sidebar(sales_id) ==
    LET all_meetings == load_all_meetings
        mine == SelectSeq(all_meetings, LAMBDA m : m.sales_id = sales_id)
        records == [i \in 1..Len(mine) |-> Meeting(mine[i].meeting_date, EmptyDict)]
    IN  IF mine = <<>>
        THEN /\ sidebar' = [NoSidebar EXCEPT !.sales_id = sales_id]
             /\ UNCHANGED agg_vars
        ELSE /\ sidebar' = [shown |-> TRUE, sales_id |-> sales_id,
                            total |-> Len(mine), last_meeting |-> LastMeeting(mine)]
             /\ my_meetings' = records
             /\ weighted_scores' = compute_weighted_scores(records)
             /\ agg_done' = TRUE
             /\ diagnostics' = Diagnostics(compute_weighted_scores(records))

(***************************************************************************)
(* Classifying transcripts, one call after another.                        *)
(***************************************************************************)
NotClassified == [called |-> FALSE, text |-> <<>>, objection |-> "none"]

NotRouted == [called |-> FALSE, text |-> <<>>, order |-> <<>>, sectors |-> {}]

NotDescribed == [called |-> FALSE, pdf_name |-> <<>>, description |-> ""]

NoExtraction == [done |-> FALSE, yields |-> [f \in {} |-> ""]]

NoCacheFile == [exists |-> FALSE, data |-> [f \in {} |-> ""]]

ClassifyInit ==
    /\ classified = NotClassified
    /\ routed = NotRouted
    /\ described = NotDescribed
    /\ extraction = NoExtraction
    /\ cache_file = NoCacheFile

\* objection = detect_objection(meeting_text)
DetectObjection(text) ==
    classified' = [called |-> TRUE, text |-> text,
                   objection |-> detect_objection(text)]

\* TOPIC_TO_SECTOR started at its entry k + 1 and wrapped around
Rotated(k) ==
    [i \in 1..Len(TOPIC_TO_SECTOR) |->
        TOPIC_TO_SECTOR[((i - 1 + k) % Len(TOPIC_TO_SECTOR)) + 1]]

Reversed(s) == [i \in 1..Len(s) |-> s[Len(s) + 1 - i]]

\* the orders in which the entries of TOPIC_TO_SECTOR are evaluated: the
\* dict's own order is Rotated(0)
KeywordOrders ==
    {Rotated(k) : k \in 0..(Len(TOPIC_TO_SECTOR) - 1)} \cup {Reversed(TOPIC_TO_SECTOR)}

\* the first lines of fetch_similar_pdfs, the keywords taken in the given order
DetectSectors(text, order) ==
    routed' = [called |-> TRUE, text |-> text, order |-> order,
               sectors |-> sectors_after(order, Lower(text))]

(***************************************************************************)
(* Specifications: one per function under study; the variables of the      *)
(* others stay as they start.                                              *)
(***************************************************************************)
\* nothing has been called and the storage is empty
StartInit == AggInit /\ ClassifyInit /\ EnvInit /\ CallInit /\ DbInit

AggNext ==
    \/ \E m \in MeetingRecords :
          /\ Len(my_meetings) < MaxMeetings
          /\ AddMeeting(m)
          /\ UNCHANGED <<fn_vars, env_vars, call_vars, db_vars>>
    \/ ComputeWeightedScores /\ UNCHANGED <<fn_vars, env_vars, call_vars, db_vars>>

SpecAgg == StartInit /\ [][AggNext]_vars

AggLongNext ==
    \/ \E m \in LongMeetingRecords :
          /\ Len(my_meetings) < MaxLongMeetings
          /\ AddMeeting(m)
          /\ UNCHANGED <<fn_vars, env_vars, call_vars, db_vars>>
    \/ ComputeWeightedScores /\ UNCHANGED <<fn_vars, env_vars, call_vars, db_vars>>

SpecAggLong == StartInit /\ [][AggLongNext]_vars

ClassifyNext ==
    \E t \in Transcripts :
        DetectObjection(t)
            /\ UNCHANGED <<agg_vars, routed, described, extraction, cache_file, env_vars, call_vars, db_vars>>

SpecClassify == StartInit /\ [][ClassifyNext]_vars

RankNext ==
    \/ \E pdf \in {Path(s, f) : s \in Sectors, f \in PdfNames}, sc \in Scores :
          /\ Len(matched) < MaxListLen
          /\ AddCandidate(pdf, sc)
          /\ UNCHANGED <<agg_vars, fn_vars, db_vars>>
    \/ RankPdfs /\ UNCHANGED <<agg_vars, fn_vars, db_vars>>

SpecRank == StartInit /\ [][RankNext]_vars

RouteNext ==
    \E t \in Transcripts, order \in KeywordOrders :
        /\ ~routed.called
        /\ DetectSectors(t, order)
        /\ UNCHANGED <<agg_vars, classified, described, extraction, cache_file, env_vars, call_vars, db_vars>>

SpecRoute == StartInit /\ [][RouteNext]_vars

\* the Marketing folder is filled, the cache is built from it and loaded,
\* and a description is asked for
DescribeNext ==
    \/ Entries < MaxEntries /\ MkDir("Marketing") /\ UNCHANGED <<agg_vars, fn_vars, db_vars>>
    \/ \E f \in FileNames :
          /\ Entries < MaxEntries
          /\ ~cache_file.exists
          /\ AddFile("Marketing", f, 40)
          /\ UNCHANGED <<agg_vars, fn_vars, db_vars>>
    \/ \E yields \in [{fetch_pdfs_from_sector("Marketing")[i] :
                          i \in 1..Len(fetch_pdfs_from_sector("Marketing"))} -> Yields] :
          /\ ~cache_file.exists
          /\ CachePdfContent(yields)
          /\ UNCHANGED <<agg_vars, db_vars>>
    \/ LoadDescriptions /\ UNCHANGED <<agg_vars, db_vars>>
    \/ \E n \in DescribeNames :
          ~described.called /\ Describe(n) /\ UNCHANGED <<agg_vars, db_vars>>

SpecDescribe == StartInit /\ [][DescribeNext]_vars

\* no handler of another session is between its first and its last step
Alone(s) == \A o \in Sessions \ {s} : sessions[o].pc \notin {"select", "insert"}

\* the handlers run one after another
SaveNext ==
    \/ now < MaxNow /\ Tick /\ UNCHANGED <<agg_vars, fn_vars, env_vars, call_vars>>
    \/ \E s \in Sessions, a \in Agents :
          /\ Alone(s)
          /\ BeginSave(s, a)
          /\ UNCHANGED <<agg_vars, fn_vars, env_vars, call_vars>>
    \/ \E s \in Sessions :
          SelectExisting(s) /\ UNCHANGED <<agg_vars, fn_vars, env_vars, call_vars>>
    \/ \E s \in Sessions :
          InsertRow(s) /\ UNCHANGED <<agg_vars, fn_vars, env_vars, call_vars>>
    \/ \E a \in Agents :
          /\ Sidebar(a)
          /\ UNCHANGED <<now, db_rows, sessions, saved_log, fn_vars, env_vars, call_vars>>

SpecSave == StartInit /\ [][SaveNext]_vars

\* the handlers of the sessions run in their own threads
SaveConcurrentNext ==
    \/ now < MaxNow /\ Tick /\ UNCHANGED <<agg_vars, fn_vars, env_vars, call_vars>>
    \/ \E s \in Sessions, a \in Agents :
          BeginSave(s, a) /\ UNCHANGED <<agg_vars, fn_vars, env_vars, call_vars>>
    \/ \E s \in Sessions :
          SelectExisting(s) /\ UNCHANGED <<agg_vars, fn_vars, env_vars, call_vars>>
    \/ \E s \in Sessions :
          InsertRow(s) /\ UNCHANGED <<agg_vars, fn_vars, env_vars, call_vars>>

SpecSaveConcurrent == StartInit /\ [][SaveConcurrentNext]_vars

\* the follow-up pipeline over a document storage
Init == AggInit /\ ClassifyInit /\ PipelineInit /\ CallInit /\ DbInit

Next ==
    \/ \E s \in Sectors :
          Entries < MaxEntries /\ MkDir(s) /\ UNCHANGED <<agg_vars, fn_vars, db_vars>>
    \/ \E s \in Sectors, f \in FileNames, sc \in Scores :
          Entries < MaxEntries /\ AddFile(s, f, sc) /\ UNCHANGED <<agg_vars, fn_vars, db_vars>>
    \/ \E t \in PipelineTranscripts :
          GenerateFollowups(t) /\ UNCHANGED <<agg_vars, fn_vars, db_vars>>

Spec == Init /\ [][Next]_vars

(***************************************************************************)
(* Properties of the aggregator.  They are stated over the input list and  *)
(* the returned dict, without the operators that compute the result.       *)
(***************************************************************************)
RECURSIVE SumF(_, _)
SumF(f, S) ==
    IF S = {} THEN 0
    ELSE LET x == CHOOSE y \in S : TRUE
         IN  f[x] + SumF(f, S \ {x})

\* the records of ms that carry metric key
Carriers(ms, key) ==
    {j \in 1..Len(ms) :
        ms[j].has_scoring /\ \E n \in 1..Len(ms[j].scoring) : ms[j].scoring[n].k = key}

\* the value record j gives metric key
ValueIn(ms, j, key) ==
    LET sc == ms[j].scoring
    IN  sc[CHOOSE n \in 1..Len(sc) : sc[n].k = key].v

\* the position (from 0) of record j once ms is ordered by timestamp
\* descending, records with equal timestamps in their input order
PositionOf(ms, j) ==
    Cardinality({i \in 1..Len(ms) : ms[i].meeting_date > ms[j].meeting_date})
    + Cardinality({i \in 1..(j - 1) : ms[i].meeting_date = ms[j].meeting_date})

\* the weight of a position, in tenths: 1.0, 0.8, 0.6, 0.4, 0.2 and then 0.1
PositionWeight(i) ==
    CASE i = 0 -> 10 [] i = 1 -> 8 [] i = 2 -> 6 [] i = 3 -> 4 [] i = 4 -> 2
      [] OTHER -> 1

\* sum of value x weight over the records that carry key
WeightedSum(ms, key) ==
    SumF([j \in Carriers(ms, key) |-> ValueIn(ms, j, key) * PositionWeight(PositionOf(ms, j))],
         Carriers(ms, key))

\* sum of the weights of all records
SharedWeight(ms) ==
    SumF([j \in 1..Len(ms) |-> PositionWeight(PositionOf(ms, j))], 1..Len(ms))

\* sum of the weights of the records that carry key
CarrierWeight(ms, key) ==
    SumF([j \in Carriers(ms, key) |-> PositionWeight(PositionOf(ms, j))], Carriers(ms, key))

\* C1: for a history of at most 5 records, every snapshot value lies between
\* the minimum and the maximum of the values the records give that metric
\* (snapshot values are in hundredths).
C1_BoundedByInputs ==
    (agg_done /\ Len(my_meetings) <= 5) =>
        \A n \in 1..Len(weighted_scores) :
            LET key == weighted_scores[n].k
                val == weighted_scores[n].v
                C == Carriers(my_meetings, key)
            IN  /\ \E j \in C : 100 * ValueIn(my_meetings, j, key) <= val
                /\ \E j \in C : val <= 100 * ValueIn(my_meetings, j, key)

\* val (in hundredths) is num / den rounded to 2 decimals
IsRounded2(val, num, den) ==
    /\ 2 * (100 * num - val * den) <= den
    /\ 2 * (val * den - 100 * num) <= den

\* C2: the records are ordered by timestamp descending, position i gets the
\* weight 1.0, 0.8, 0.6, 0.4, 0.2 (i = 0..4) or 0.1 (i >= 5), and a metric
\* that every record carries gets sum(value x weight) / sum(weights) rounded
\* to 2 decimals; quality scores 9, 5, 1 from most to least recent give 5.67.
C2_RecencyWeightedAverage ==
    /\ compute_weighted_scores(<<Meeting(3, <<Item("quality", 9)>>),
                                 Meeting(2, <<Item("quality", 5)>>),
                                 Meeting(1, <<Item("quality", 1)>>)>>)
           = <<Item("quality", 567)>>
    /\ agg_done =>
          \A key \in Metrics :
              (my_meetings # <<>> /\ Carriers(my_meetings, key) = 1..Len(my_meetings)) =>
                  \E n \in 1..Len(weighted_scores) :
                      /\ weighted_scores[n].k = key
                      /\ IsRounded2(weighted_scores[n].v,
                                    WeightedSum(my_meetings, key),
                                    SharedWeight(my_meetings))

\* a history of 6 records given oldest first: the first record of the list
\* lands on position 5, with a value unlike the second record's
C2_Witness ==
    /\ agg_done
    /\ Len(my_meetings) = 6
    /\ PositionOf(my_meetings, 1) = 5
    /\ ValueIn(my_meetings, 1, "quality") # ValueIn(my_meetings, 2, "quality")
    /\ weighted_scores # <<>>

\* C3: every metric's weighted sum is divided by the one cumulative weight
\* of all records of the history, records without that metric or without
\* any scoring included.
C3_SharedCumulativeWeight ==
    agg_done =>
        \A n \in 1..Len(weighted_scores) :
            IsRounded2(weighted_scores[n].v,
                       WeightedSum(my_meetings, weighted_scores[n].k),
                       SharedWeight(my_meetings))

\* a history with a record that has no scoring and a metric only one record
\* carries, whose value is not the sum over the weight of its carriers
C3_Witness ==
    /\ agg_done
    /\ \E j \in 1..Len(my_meetings) : ~my_meetings[j].has_scoring
    /\ \E n \in 1..Len(weighted_scores) :
          LET key == weighted_scores[n].k
          IN  /\ Carriers(my_meetings, key) # 1..Len(my_meetings)
              /\ ~IsRounded2(weighted_scores[n].v,
                             WeightedSum(my_meetings, key),
                             CarrierWeight(my_meetings, key))

(***************************************************************************)
(* Properties of detect_objection.  What each line of TranscriptLines      *)
(* says is written down here line by line, not searched for.               *)
(***************************************************************************)
ObjectionCategory == {"money", "expectations", "quality", "timeline", "none"}

\* the lines that voice each objection
MoneyLines == {line_price, line_the_money, line_budget, line_store_price}

ExpectationLines == {line_result, line_results, line_quality_results}

QualityLines == {line_quality, line_quality_results}

TimelineLines == {line_time}

\* text.split("\n") as a set of lines
RECURSIVE LinesIn(_)
LinesIn(text) ==
    IF \E i \in 1..Len(text) : text[i] = "NL"
    THEN LET i == CHOOSE j \in 1..Len(text) :
                     text[j] = "NL" /\ \A n \in 1..(j - 1) : text[n] # "NL"
         IN  {SubSeq(text, 1, i - 1)} \cup LinesIn(SubSeq(text, i + 1, Len(text)))
    ELSE {text}

Voices(text, group) == LinesIn(text) \cap group # {}

C5_FirstGroupWins ==
    classified.called =>
        classified.objection =
            IF Voices(classified.text, MoneyLines) THEN "money"
            ELSE IF Voices(classified.text, ExpectationLines) THEN "expectations"
            ELSE IF Voices(classified.text, QualityLines) THEN "quality"
            ELSE IF Voices(classified.text, TimelineLines) THEN "timeline"
            ELSE "none"

\* a transcript with keywords of two groups was given the earlier group
C5_Witness ==
    /\ classified.called
    /\ Voices(classified.text, ExpectationLines)
    /\ Voices(classified.text, TimelineLines)
    /\ ~Voices(classified.text, MoneyLines)
    /\ classified.objection = "expectations"

(***************************************************************************)
(* Properties of generate_followups.                                       *)
(***************************************************************************)
StageKeys == {"followup_1", "followup_2", "followup_3", "followup_4"}

OtherKeys ==
    {"client_name", "objection", "selected_pdf_1", "selected_pdf_2",
     "pdf1_description", "pdf2_description", "schedule"}

\* the lines that name a topic of each sector
SectorLines ==
    [s \in Sectors |->
        CASE s = "Marketing" ->
                 {line_results, line_store, line_store_price, line_quality_results}
          [] s = "Sales" -> {line_client}
          [] s = "Business" ->
                 {line_price, line_the_money, line_money, line_budget, line_store_price}
          [] s = "Branding" -> {line_quality, line_quality_results}]

\* the sectors the transcript names
VoicedSectors(text) == {s \in Sectors : Voices(text, SectorLines[s])}

HasPdf(s) ==
    /\ storage[s].exists
    /\ \E i \in 1..Len(storage[s].files) : EndsWith(storage[s].files[i], pdf_suffix)

\* C6: for every transcript the result has exactly the 4 stages
\* followup_1..followup_4, each with a nonempty body, and the same four
\* scheduling offsets in stage order.
C6_FourStagesAlways ==
    phase = "done" =>
        /\ DOMAIN followups \ OtherKeys = StageKeys
        /\ \A k \in StageKeys : followups[k].template # ""
        /\ followups.schedule =
               [followup_1_time |-> "2-3 hours after the meeting",
                followup_2_time |-> "next day 10 am",
                followup_3_time |-> "after 48 hours, depending on the client's response",
                followup_4_time |-> "after 72-96 hours (closing stage)"]

\* a transcript with no objection and no document has been composed
C6_Witness ==
    /\ phase = "done"
    /\ followups.objection = "none"
    /\ ~followups.selected_pdf_1.some
    /\ StageKeys \subseteq DOMAIN followups

\* C7: when no sector the transcript names has a pdf in existing storage
\* (no sector named, folders missing or empty), the ranker returns the empty
\* sequence and the result still has the 4 stages, stages 1 and 2 composed
\* with no document name and no description.
C7_NoCandidatesNoAttachment ==
    (phase = "done" /\ \A s \in VoicedSectors(meeting_text) : ~HasPdf(s)) =>
        /\ ranked = <<>>
        /\ DOMAIN followups \ OtherKeys = StageKeys
        /\ ~followups.selected_pdf_1.some
        /\ ~followups.selected_pdf_2.some
        /\ followups.pdf1_description = ""
        /\ followups.pdf2_description = ""
        /\ followups.followup_1.template = "followup_1"
        /\ followups.followup_2.template = "followup_2"
        /\ followups.followup_1.desc = ""
        /\ followups.followup_2.desc = ""
        /\ followups.followup_1.pdf \notin FileNames
        /\ followups.followup_2.pdf \notin FileNames

\* the transcript names a sector whose folder exists without a pdf, while
\* another sector's folder holds one
C7_Witness ==
    /\ phase = "done"
    /\ \E s \in VoicedSectors(meeting_text) : storage[s].exists
    /\ \A s \in VoicedSectors(meeting_text) : ~HasPdf(s)
    /\ \E s \in Sectors : HasPdf(s)
    /\ ~followups.selected_pdf_1.some

\* the stage-3 template of each objection category
Stage3Template(objection) ==
    CASE objection = "money" -> "followup_3_money"
      [] objection = "expectations" -> "followup_3_expectations"
      [] objection = "quality" -> "followup_3_quality"
      [] objection = "timeline" -> "followup_3_timeline"
      [] objection = "none" -> "followup_3_none"

\* C8: the stage-3 body is the template of the classified objection, one per
\* category, the stage-4 body is the closing template for every objection,
\* and a transcript that voices price and no other objection is classified
\* money and gets the money template.
C8_Stage3ByObjection ==
    phase = "done" =>
        /\ followups.objection \in ObjectionCategory
        /\ followups.followup_3.template = Stage3Template(followups.objection)
        /\ followups.followup_4.template = "followup_4"
        /\ followups.followup_3.client_name = followups.client_name
        /\ (/\ Voices(meeting_text, {line_price, line_store_price})
            /\ ~Voices(meeting_text, ExpectationLines \cup QualityLines \cup TimelineLines))
               => /\ followups.objection = "money"
                  /\ followups.followup_3.template = "followup_3_money"

\* a transcript about time has been composed
C8_Witness ==
    /\ phase = "done"
    /\ meeting_text = line_time
    /\ followups.objection = "timeline"

(***************************************************************************)
(* Properties of rank_pdfs_based_on_relevance.                             *)
(***************************************************************************)
Occurrences(s, x) == Cardinality({i \in 1..Len(s) : s[i] = x})

ScoreOf(pdf) == ratio[Lower(pdf.name)]

\* C9: the ranked list is a permutation of the input list: every path
\* occurs in it as often as in the input.
C9_RankIsPermutation ==
    phase = "done" =>
        /\ Len(ranked) = Len(matched)
        /\ \A i \in 1..Len(matched) :
               Occurrences(ranked, matched[i]) = Occurrences(matched, matched[i])
        /\ \A i \in 1..Len(ranked) :
               Occurrences(ranked, ranked[i]) = Occurrences(matched, ranked[i])

\* a list with a repeated path has been ranked into another order
C9_Witness ==
    /\ phase = "done"
    /\ Len(matched) = 3
    /\ \E i, j \in 1..Len(matched) : i # j /\ matched[i] = matched[j]
    /\ ranked # matched

\* C10: the ranked list is in non-increasing order of score, and entries
\* with equal score keep their order from the input list.
C10_DescendingAndStable ==
    phase = "done" =>
        \E pos \in [1..Len(ranked) -> 1..Len(matched)] :
            /\ \A i, j \in 1..Len(ranked) : i # j => pos[i] # pos[j]
            /\ \A i \in 1..Len(ranked) : ranked[i] = matched[pos[i]]
            /\ \A i, j \in 1..Len(ranked) :
                   i < j => /\ ScoreOf(ranked[i]) >= ScoreOf(ranked[j])
                            /\ ScoreOf(ranked[i]) = ScoreOf(ranked[j]) => pos[i] < pos[j]

\* two different paths of equal score were ranked behind a later, better one
C10_Witness ==
    /\ phase = "done"
    /\ Len(matched) = 3
    /\ matched[1] # matched[2]
    /\ ScoreOf(matched[1]) = ScoreOf(matched[2])
    /\ ScoreOf(matched[3]) > ScoreOf(matched[1])
    /\ ranked = <<matched[3], matched[1], matched[2]>>

(***************************************************************************)
(* Properties of the document selection of generate_followups.             *)
(***************************************************************************)
\* the attachment of a stage that the ranked list prescribes at position n
Prescribed(n) ==
    IF Len(ranked) >= n THEN SomePdf(ranked[n].name) ELSE NoPdf

\* C11: stage 1 references the best-ranked document and stage 2 the second,
\* each with the description of its own document; with one candidate
\* stage 2 has no attachment; stages 3 and 4 reference no document, so
\* nothing ranked third or lower appears.
C11_TopTwoOnly ==
    phase = "done" =>
        /\ followups.selected_pdf_1 = Prescribed(1)
        /\ followups.selected_pdf_2 = Prescribed(2)
        /\ followups.followup_1.pdf = Printed(Prescribed(1))
        /\ followups.followup_2.pdf = Printed(Prescribed(2))
        /\ Len(ranked) >= 1 =>
               /\ followups.pdf1_description = pdf_description_engine(ranked[1].name)
               /\ followups.followup_1.desc = followups.pdf1_description
        /\ Len(ranked) >= 2 =>
               /\ followups.pdf2_description = pdf_description_engine(ranked[2].name)
               /\ followups.followup_2.desc = followups.pdf2_description
        /\ Len(ranked) = 1 =>
               /\ followups.selected_pdf_1.some
               /\ ~followups.selected_pdf_2.some
               /\ followups.pdf2_description = ""
        /\ followups.followup_3.pdf = <<>>
        /\ followups.followup_4.pdf = <<>>

\* three documents of different names and descriptions were candidates
C11_Witness ==
    /\ phase = "done"
    /\ Len(ranked) = 3
    /\ ranked[3].name \notin {ranked[1].name, ranked[2].name}
    /\ followups.pdf1_description # followups.pdf2_description
    /\ followups.selected_pdf_2.some

(***************************************************************************)
(* Properties of the sector detection.                                     *)
(***************************************************************************)
\* C12: the detected sectors are exactly the sectors some keyword of which
\* occurs in the transcript: one sector once however many of its keywords
\* occur, the union over sectors, the empty set when none occurs, and the
\* same set in whatever order the keywords are evaluated.
C12_RouteIsKeywordUnion ==
    routed.called =>
        /\ routed.sectors = VoicedSectors(routed.text)
        /\ routed.sectors = detected_sectors(routed.text)
        /\ routed.sectors \subseteq Sectors

\* keywords of two sectors, one of them with two keywords in the text, were
\* evaluated in another order than the dict's
C12_Witness ==
    /\ routed.called
    /\ routed.text = JoinLines(<<line_budget, line_store_price>>)
    /\ routed.order = Reversed(TOPIC_TO_SECTOR)
    /\ routed.sectors = {"Marketing", "Business"}

(***************************************************************************)
(* Properties of pdf_description_engine and of the description cache.      *)
(***************************************************************************)
\* the file name without its extension
StripExtension(name) ==
    IF EndsWith(Lower(name), pdf_suffix) THEN SubSeq(name, 1, Len(name) - Len(pdf_suffix))
    ELSE name

\* the keyword rules, in their fixed order
DescriptionRules ==
    <<[kw |-> rule_strategy, description |-> "desc_strategy"],
      [kw |-> rule_roadmap, description |-> "desc_strategy"],
      [kw |-> rule_ugc, description |-> "desc_ugc"],
      [kw |-> rule_user_content, description |-> "desc_ugc"],
      [kw |-> rule_marketing, description |-> "desc_marketing"],
      [kw |-> rule_advert, description |-> "desc_ads"],
      [kw |-> rule_campaigns, description |-> "desc_ads"],
      [kw |-> rule_brand, description |-> "desc_brand"],
      [kw |-> rule_identity, description |-> "desc_brand"]>>

\* the rules whose keyword occurs in the lowercased name without extension
RulesMatching(name) ==
    {i \in 1..Len(DescriptionRules) :
        Contains(DescriptionRules[i].kw, Lower(StripExtension(name)))}

\* C13: a name is described by its cache entry when it has one, otherwise
\* by the earliest rule whose keyword occurs in the lowercased name with the
\* extension stripped, otherwise by the generic fallback.
C13_DescribeResolution ==
    described.called =>
        LET n == described.pdf_name
            M == RulesMatching(n)
        IN  described.description =
                IF n \in DOMAIN PDF_DESCRIPTIONS THEN PDF_DESCRIPTIONS[n]
                ELSE IF M # {}
                     THEN DescriptionRules[CHOOSE i \in M : \A j \in M : i <= j].description
                     ELSE "desc_default"

\* both extractors gave no text for the file
ExtractionFailed(f) ==
    /\ extraction.done
    /\ f \in DOMAIN extraction.yields
    /\ CleanText(extraction.yields[f].pypdf2) = ""
    /\ CleanText(extraction.yields[f].pdfminer) = ""

\* C14: a document whose text extraction failed is left out of the cache or
\* gets the generic or a keyword-derived description when described, never
\* the empty description, and every other document is still processed.
C14_FailedExtractionNotEmpty ==
    (described.called /\ ExtractionFailed(described.pdf_name)) =>
        /\ described.description # ""
        /\ described.description \in
               {"desc_default"} \cup
               {DescriptionRules[i].description : i \in 1..Len(DescriptionRules)}
        /\ DOMAIN cache_file.data = DOMAIN extraction.yields

FirstSeen(ms, key) ==
    LET C == Carriers(ms, key)
        j == CHOOSE c \in C : \A o \in C : PositionOf(ms, c) <= PositionOf(ms, o)
        sc == ms[j].scoring
    IN  <<PositionOf(ms, j), CHOOSE n \in 1..Len(sc) : sc[n].k = key>>

SeenBefore(a, b) == a[1] < b[1] \/ (a[1] = b[1] /\ a[2] < b[2])

\* C16: the strongest metric has the maximum value and the weakest the
\* minimum; among equal values the first in the snapshot's order is chosen,
\* and that order is the order of first appearance of the metric names over
\* the records from most recent to oldest.
C16_StrongestWeakest ==
    (agg_done /\ weighted_scores # EmptyDict) =>
        /\ diagnostics.shown
        /\ \E b \in 1..Len(weighted_scores) :
              /\ diagnostics.best = weighted_scores[b].k
              /\ \A i \in 1..Len(weighted_scores) :
                     weighted_scores[i].v <= weighted_scores[b].v
              /\ \A i \in 1..(b - 1) : weighted_scores[i].v < weighted_scores[b].v
        /\ \E w \in 1..Len(weighted_scores) :
              /\ diagnostics.worst = weighted_scores[w].k
              /\ \A i \in 1..Len(weighted_scores) :
                     weighted_scores[i].v >= weighted_scores[w].v
              /\ \A i \in 1..(w - 1) : weighted_scores[i].v > weighted_scores[w].v
        /\ \A i, j \in 1..Len(weighted_scores) :
               i < j => SeenBefore(FirstSeen(my_meetings, weighted_scores[i].k),
                                   FirstSeen(my_meetings, weighted_scores[j].k))

\* two metrics of equal value; the one met first stands in the most recent
\* record, which is the second of the list
C16_Witness ==
    /\ agg_done
    /\ Len(my_meetings) = 2
    /\ my_meetings[1].meeting_date < my_meetings[2].meeting_date
    /\ DictKeys(ScoringOf(my_meetings[1])) = {"quality"}
    /\ Len(weighted_scores) = 2
    /\ weighted_scores[1].k = "clarity"
    /\ weighted_scores[1].v = weighted_scores[2].v
    /\ diagnostics.best = "clarity"
    /\ diagnostics.worst = "clarity"

\* C17: the snapshot has exactly one entry for every metric name present
\* in at least one record and no other entry; the empty history gives the
\* empty snapshot.
C17_ExactlyThePresentMetrics ==
    agg_done =>
        /\ DictKeys(weighted_scores) =
               {key \in Metrics : Carriers(my_meetings, key) # {}}
        /\ \A i, j \in 1..Len(weighted_scores) :
               weighted_scores[i].k = weighted_scores[j].k => i = j
        /\ my_meetings = <<>> => weighted_scores = EmptyDict

\* one metric in both records, the other metric in neither, and the older
\* record first in the list
C17_Witness ==
    /\ agg_done
    /\ Len(my_meetings) = 2
    /\ Carriers(my_meetings, "quality") = {1, 2}
    /\ Carriers(my_meetings, "clarity") = {}
    /\ Len(weighted_scores) = 1

(***************************************************************************)
(* Properties of the customer name.                                        *)
(***************************************************************************)
\* the lines that contain the cue phrase
CueLines == {line_cue, line_cue_plain}

\* the lines that contain the cue phrase and a colon
CueColonLines == {line_cue}

\* C18: the name is the generic placeholder for every transcript no line of
\* which contains the cue, it is the hard-coded name only when some line
\* contains both the cue and a colon, and all 4 stage bodies use that name.
C18_ClientName ==
    phase = "done" =>
        /\ followups.client_name \in {client_generic, client_nora}
        /\ ~Voices(meeting_text, CueLines) => followups.client_name = client_generic
        /\ followups.client_name = client_nora => Voices(meeting_text, CueColonLines)
        /\ \A k \in StageKeys : followups[k].client_name = followups.client_name

\* the cue on one line and a colon on another
C18_Witness ==
    /\ phase = "done"
    /\ meeting_text = JoinLines(<<line_cue_plain, line_stamp>>)
    /\ followups.client_name = client_generic
    /\ followups.followup_4.client_name = client_generic

(***************************************************************************)
(* Order of the input list.                                                *)
(***************************************************************************)
\* the lists 1..n in every order
IndexOrders(n) ==
    {o \in [1..n -> 1..n] : \A x \in 1..n : \E i \in 1..n : o[i] = x}

DistinctDates(ms) ==
    \A i, j \in 1..Len(ms) : i # j => ms[i].meeting_date # ms[j].meeting_date

\* C19: for a history of pairwise distinct dates, every permutation of the
\* list gives the same snapshot values.
C19_InputOrderIrrelevant ==
    (agg_done /\ DistinctDates(my_meetings)) =>
        \A o \in IndexOrders(Len(my_meetings)) :
            LET other == compute_weighted_scores([i \in 1..Len(my_meetings) |-> my_meetings[o[i]]])
            IN  /\ DictKeys(other) = DictKeys(weighted_scores)
                /\ \A key \in DictKeys(other) :
                       DictGet(other, key, 0) = DictGet(weighted_scores, key, 0)

\* the older record stands first and the two records score a metric differently
C19_Witness ==
    /\ agg_done
    /\ Len(my_meetings) = 2
    /\ my_meetings[1].meeting_date < my_meetings[2].meeting_date
    /\ Carriers(my_meetings, "quality") = {1, 2}
    /\ ValueIn(my_meetings, 1, "quality") # ValueIn(my_meetings, 2, "quality")

(***************************************************************************)
(* Order of iteration over the detected sectors.                           *)
(***************************************************************************)
\* C20: for the transcript and the storage of the call, the two documents
\* selected are the same in whatever order the detected sectors are
\* iterated, documents of equal score in different sectors included.
C20_SectorOrderIrrelevant ==
    phase = "done" =>
        \A order \in Orders(detected_sectors(meeting_text)) :
            LET selected == fetch_similar_pdfs(meeting_text, order)
            IN  /\ Len(selected) = Len(FirstTwo(ranked))
                /\ \A i \in 1..Len(selected) : selected[i] = ranked[i]

(***************************************************************************)
(* Properties of the meetings table and of the sidebar's last meeting.     *)
(***************************************************************************)
\* C21: with the calls of save_meeting_result made one after another, the
\* table holds one row per call that returned an id, the ids are pairwise
\* distinct, rows once stored are never changed, and a call whose id is in
\* the table leaves the table as it is and returns the message.
C21_OneRowPerReturnedId ==
    [][/\ Len(db_rows') = Len(saved_log')
       /\ \A i \in 1..Len(db_rows') : db_rows'[i].id = saved_log'[i]
       /\ \A i, j \in 1..Len(db_rows') : db_rows'[i].id = db_rows'[j].id => i = j
       /\ Len(db_rows') >= Len(db_rows)
       /\ SubSeq(db_rows', 1, Len(db_rows)) = db_rows
       /\ \A s \in Sessions :
              /\ sessions'[s].pc # "raised"
              /\ (/\ sessions[s].pc = "select"
                  /\ sessions'[s].pc # "select"
                  /\ \E i \in 1..Len(db_rows) : db_rows[i].id = sessions[s].meeting_id)
                     => /\ db_rows' = db_rows
                        /\ sessions'[s].pc = "returned"
                        /\ sessions'[s].result = already_exists]_vars

\* one call was answered with the message, between two calls that stored rows
C21_Witness ==
    /\ Len(db_rows) = 2
    /\ \E s \in Sessions :
          /\ sessions[s].pc = "returned"
          /\ sessions[s].result = already_exists
          /\ sessions[s].meeting_id = db_rows[1].id

\* C22: with the calls of save_meeting_result interleaved, every call ends
\* by storing one row and returning its id or by leaving the table as it is
\* and returning the message, none ends with an error, and no run reported
\* as saved ends without its row being stored.
C22_ConcurrentSaves ==
    \A s \in Sessions :
        /\ sessions[s].pc # "raised"
        /\ sessions[s].pc = "returned" =>
               /\ sessions[s].result \in {"meeting_id", already_exists}
               /\ sessions[s].reported =>
                      \E i \in 1..Len(db_rows) :
                          db_rows[i] = [id |-> sessions[s].meeting_id,
                                        sales_id |-> sessions[s].sales_id,
                                        meeting_date |-> sessions[s].meeting_date]

\* C23: when the sidebar shows an agent's meetings, its last meeting is the
\* greatest meeting_date among the agent's rows of the table.
C23_LastMeetingIsMostRecent ==
    [][(sidebar'.shown /\ db_rows' = db_rows) =>
          \E i \in 1..Len(db_rows) :
              /\ db_rows[i].sales_id = sidebar'.sales_id
              /\ sidebar'.last_meeting = db_rows[i].meeting_date \div TicksPerSecond
              /\ \A j \in 1..Len(db_rows) :
                     db_rows[j].sales_id = sidebar'.sales_id
                         => db_rows[j].meeting_date <= db_rows[i].meeting_date]_vars

====
